---- MODULE Spec2Model ----
(***************************************************************************)
(* A model of PrimaryColsListPanel (primaryColsListPanel.ts): the list of  *)
(* column / column-group items of the columns tool panel, its item         *)
(* registry (columnComps), the filter engine, the visibility propagation   *)
(* and the bulk expand / select operations.                                *)
(*                                                                         *)
(* Text is a sequence of one-character strings.  The JavaScript values     *)
(* undefined and null are the two sentinels Undefined and Null.            *)
(***************************************************************************)
EXTENDS Naturals, Integers, Sequences, FiniteSets, TLC

VARIABLES
    phase,                 \* "constructed" | "initialised" | "destroyed"
    listeners,             \* events the panel is subscribed to
    expandGroupsByDefault, \* this.expandGroupsByDefault
    columnTree,            \* this.columnTree: index into Trees, 0 = undefined
    compsDefined,          \* FALSE while this.columnComps is undefined
    columnComps,           \* this.columnComps: id -> item
    gui,                   \* children of getGui(), in append order
    filterText,            \* this.filterText
    lastOp,                \* the operation performed by the last step
    log,                   \* observable effects of the last operation, in order
    error,                 \* TRUE iff the last operation threw
    destroyedTwice         \* TRUE iff destroy() was ever called on a destroyed item

vars == <<phase, listeners, expandGroupsByDefault, columnTree, compsDefined,
          columnComps, gui, filterText, lastOp, log, error, destroyedTwice>>

-----------------------------------------------------------------------------
(* Bounds *)

\* longest groupIds array passed to setGroupsExpanded
MaxGroupIds == 2

-----------------------------------------------------------------------------
(* Values *)

Undefined == <<"undefined">>
Null == <<"null">>

\* _.exists(value): neither null, undefined nor the empty string
exists(value) == value # Null /\ value # Undefined /\ value # <<>>

\* JavaScript truthiness of a string | null | undefined
truthy(value) == value # Null /\ value # Undefined /\ value # <<>>

toLowerCaseChar(c) ==
    CASE c = "A" -> "a"
      [] c = "C" -> "c"
      [] c = "R" -> "r"
      [] c = "V" -> "v"
      [] OTHER -> c

\* String.prototype.toLowerCase
toLowerCase(s) == [i \in 1..Len(s) |-> toLowerCaseChar(s[i])]

\* s.indexOf(t) >= 0
indexOfFound(s, t) ==
    \E i \in 0..(Len(s) - Len(t)) : SubSeq(s, i + 1, i + Len(t)) = t

\* array.indexOf(x) > -1
inArray(arr, x) == \E i \in 1..Len(arr) : arr[i] = x

-----------------------------------------------------------------------------
(* Source trees: OriginalColumnGroup / Column nodes *)

Leaf(name, suppress) ==
    [group |-> FALSE, children |-> <<>>, padding |-> FALSE,
     suppress |-> suppress, name |-> name]

Group(name, children, suppress) ==
    [group |-> TRUE, children |-> children, padding |-> FALSE,
     suppress |-> suppress, name |-> name]

Padding(children) ==
    [group |-> TRUE, children |-> children, padding |-> TRUE,
     suppress |-> FALSE, name |-> Null]

NameA == <<"A">>
NameCar == <<"C", "a", "r">>
NameRev == <<"R", "e", "v">>
NameRevMixed == <<"R", "e", "V">>
NameCost == <<"C", "o", "s", "t">>

\* group A { Rev, Cost }
Tree1 ==
    [roots |-> <<"gA">>,
     nodes |-> [gA |-> Group(NameA, <<"c1", "c2">>, FALSE),
                c1 |-> Leaf(NameRev, FALSE),
                c2 |-> Leaf(NameCost, FALSE)]]

\* group A { group Rev { Car }, padding { Cost } }, padding { ReV }
Tree2 ==
    [roots |-> <<"gA", "p2">>,
     nodes |-> [gA |-> Group(NameA, <<"gB", "p1">>, FALSE),
                gB |-> Group(NameRev, <<"c1">>, FALSE),
                p1 |-> Padding(<<"c2">>),
                p2 |-> Padding(<<"c3">>),
                c1 |-> Leaf(NameCar, FALSE),
                c2 |-> Leaf(NameCost, FALSE),
                c3 |-> Leaf(NameRevMixed, FALSE)]]

\* group Car { suppressed group Rev { Rev }, suppressed Cost }, group A { Cost }
Tree3 ==
    [roots |-> <<"gA", "gB">>,
     nodes |-> [gA |-> Group(NameCar, <<"gC", "c2">>, FALSE),
                gC |-> Group(NameRev, <<"c1">>, TRUE),
                gB |-> Group(NameA, <<"c3">>, FALSE),
                c1 |-> Leaf(NameRev, FALSE),
                c2 |-> Leaf(NameCost, TRUE),
                c3 |-> Leaf(NameCost, FALSE)]]

\* columns only: Cost, and a column without a display name
Tree4 ==
    [roots |-> <<"c2", "c4">>,
     nodes |-> [c2 |-> Leaf(NameCost, FALSE),
                c4 |-> Leaf(Null, FALSE)]]

\* groups without items only: padding { Rev }, suppressed group A { Cost }
Tree5 ==
    [roots |-> <<"p1", "gA">>,
     nodes |-> [p1 |-> Padding(<<"c1">>),
                gA |-> Group(NameA, <<"c2">>, TRUE),
                c1 |-> Leaf(NameRev, FALSE),
                c2 |-> Leaf(NameCost, FALSE)]]

Trees == <<Tree1, Tree2, Tree3, Tree4, Tree5>>

TreeIds == 1..Len(Trees)

NodeIds(t) == DOMAIN Trees[t].nodes

Node(t, id) == Trees[t].nodes[id]

\* item instanceof OriginalColumnGroup
isGroup(t, id) == Node(t, id).group

getChildren(t, id) == Node(t, id).children

\* columnGroup.isPadding()
isPadding(t, id) == Node(t, id).padding

\* getColGroupDef() && getColGroupDef().suppressToolPanel  (resp. getColDef())
suppressToolPanel(t, id) == Node(t, id).suppress

\* the enclosing group of each node, "" at the root level
OriginalParents ==
    [t \in TreeIds |->
        [id \in NodeIds(t) |->
            IF \E g \in NodeIds(t) : isGroup(t, g) /\ inArray(getChildren(t, g), id)
            THEN CHOOSE g \in NodeIds(t) :
                     isGroup(t, g) /\ inArray(getChildren(t, g), id)
            ELSE ""]]

\* item.getOriginalParent() is truthy
hasOriginalParent(t, id) == OriginalParents[t][id] # ""

getOriginalParent(t, id) == OriginalParents[t][id]

RECURSIVE AncestorsOf(_, _)
AncestorsOf(t, id) ==
    IF hasOriginalParent(t, id)
    THEN {getOriginalParent(t, id)} \cup AncestorsOf(t, getOriginalParent(t, id))
    ELSE {}

AncestorTable == [t \in TreeIds |-> [id \in NodeIds(t) |-> AncestorsOf(t, id)]]

Ancestors(t, id) == AncestorTable[t][id]

DescendantTable ==
    [t \in TreeIds |->
        [id \in NodeIds(t) |-> {d \in NodeIds(t) : id \in AncestorTable[t][d]}]]

Descendants(t, id) == DescendantTable[t][id]

\* every id a caller may pass: the ids of the trees and one that is in none
AllIds == UNION {NodeIds(t) : t \in TreeIds} \cup {"zz"}

-----------------------------------------------------------------------------
(* Items: ToolPanelColumnGroupComp / ToolPanelColumnComp *)

\* NewGroupComp ignoring expandByDefault: every new group item is expanded
NewGroupCompExpanded(dept, expandByDefault) ==
    [group |-> TRUE, expanded |-> TRUE, displayed |-> TRUE,
     dept |-> dept, destroyed |-> FALSE]

\* new ToolPanelColumnGroupComp(columnGroup, dept, callback, allowDragging, expandByDefault)
NewGroupComp(dept, expandByDefault) ==
    [group |-> TRUE, expanded |-> expandByDefault, displayed |-> TRUE,
     dept |-> dept, destroyed |-> FALSE]

\* new ToolPanelColumnComp(column, dept, allowDragging, groupsExist)
NewColumnComp(dept) ==
    [group |-> FALSE, expanded |-> FALSE, displayed |-> TRUE,
     dept |-> dept, destroyed |-> FALSE]

\* comp.getDisplayName(): the name of the node the item wraps, possibly null
getDisplayName(t, id) == Node(t, id).name

\* comp.isExpanded()
isExpanded(comps, id) == comps[id].expanded

\* renderedItem.isExpandable(): groups only, and only with a displayable child
isExpandable(t, comps, id) ==
    comps[id].group /\ \E d \in Descendants(t, id) : d \in DOMAIN comps

\* comp.setDisplayed(value)
setDisplayed(comps, id, value) == [comps EXCEPT ![id].displayed = value]

\* _.iterateObject(this.columnComps, ...): the keys in insertion order, none
\* when the object is undefined
iterationOrder(defined, order) == IF defined THEN order ELSE <<>>

-----------------------------------------------------------------------------
(* Building the items *)

RECURSIVE recursivelyAddComps(_, _, _)
RECURSIVE recursivelyAddGroupComps(_, _, _)

\* addColumnComps without the suppressToolPanel test
addColumnCompsOfEveryColumn(t, column, dept) == << <<column, dept, FALSE>> >>

\* the items a column creates: <<id, dept, isGroupComp>>, in creation order
addColumnComps(t, column, dept) ==
    IF suppressToolPanel(t, column) THEN <<>> ELSE << <<column, dept, FALSE>> >>

\* recursivelyAddGroupComps treating a suppressed group as a padding group: no
\* item for the group, its children visited
recursivelyAddGroupCompsBelowSuppressed(t, columnGroup, dept) ==
    IF ~suppressToolPanel(t, columnGroup) /\ ~isPadding(t, columnGroup)
    THEN << <<columnGroup, dept, TRUE>> >>
         \o recursivelyAddComps(t, getChildren(t, columnGroup), dept + 1)
    ELSE recursivelyAddComps(t, getChildren(t, columnGroup), dept)

\* recursivelyAddGroupComps indenting the children of a padding group too
recursivelyAddGroupCompsIndentingPadding(t, columnGroup, dept) ==
    IF suppressToolPanel(t, columnGroup) THEN <<>>
    ELSE IF ~isPadding(t, columnGroup)
         THEN << <<columnGroup, dept, TRUE>> >>
              \o recursivelyAddComps(t, getChildren(t, columnGroup), dept + 1)
         ELSE recursivelyAddComps(t, getChildren(t, columnGroup), dept + 1)

recursivelyAddGroupComps(t, columnGroup, dept) ==
    IF suppressToolPanel(t, columnGroup) THEN <<>>
    ELSE IF ~isPadding(t, columnGroup)
         THEN << <<columnGroup, dept, TRUE>> >>
              \o recursivelyAddComps(t, getChildren(t, columnGroup), dept + 1)
         ELSE recursivelyAddComps(t, getChildren(t, columnGroup), dept)

\* recursivelyAddComps visiting the children from the last to the first
recursivelyAddCompsLastFirst(t, tree, dept) ==
    IF tree = <<>> THEN <<>>
    ELSE recursivelyAddComps(t, Tail(tree), dept)
         \o (IF isGroup(t, Head(tree))
             THEN recursivelyAddGroupComps(t, Head(tree), dept)
             ELSE addColumnComps(t, Head(tree), dept))

recursivelyAddComps(t, tree, dept) ==
    IF tree = <<>> THEN <<>>
    ELSE (IF isGroup(t, Head(tree))
          THEN recursivelyAddGroupComps(t, Head(tree), dept)
          ELSE addColumnComps(t, Head(tree), dept))
         \o recursivelyAddComps(t, Tail(tree), dept)

\* this.columnComps after the items `created` were put into the empty registry
RegistryOf(created, expandByDefault) ==
    [id \in {created[i][1] : i \in 1..Len(created)} |->
        LET i == CHOOSE j \in 1..Len(created) :
                    created[j][1] = id
                    /\ \A k \in (j + 1)..Len(created) : created[k][1] # id
        IN IF created[i][3]
           THEN NewGroupComp(created[i][2], expandByDefault)
           ELSE NewColumnComp(created[i][2])]

-----------------------------------------------------------------------------
(* Filter engine *)

\* filterResults[item.getId()] of createFilterResults
RECURSIVE recursivelyCheckFilter(_, _, _, _)
\* recursivelyCheckFilter letting an item pass as well when the name of a group
\* item above it contains the text
recursivelyCheckFilterInheriting(t, comps, text, item) ==
    \/ \E a \in Ancestors(t, item) \cap DOMAIN comps :
          /\ truthy(text)
          /\ getDisplayName(t, a) # Null
          /\ indexOfFound(toLowerCase(getDisplayName(t, a)), text)
    \/ /\ isGroup(t, item)
       /\ \E i \in 1..Len(getChildren(t, item)) :
              recursivelyCheckFilter(t, comps, text, getChildren(t, item)[i])
    \/ IF item \in DOMAIN comps /\ truthy(text)
       THEN IF getDisplayName(t, item) # Null
            THEN indexOfFound(toLowerCase(getDisplayName(t, item)), text)
            ELSE TRUE
       ELSE isGroup(t, item) /\ hasOriginalParent(t, item)

recursivelyCheckFilter(t, comps, text, item) ==
    LET atLeastOneChildPassed ==
            isGroup(t, item)
            /\ \E i \in 1..Len(getChildren(t, item)) :
                   recursivelyCheckFilter(t, comps, text, getChildren(t, item)[i])
    IN IF atLeastOneChildPassed THEN TRUE
       ELSE IF item \in DOMAIN comps /\ truthy(text)
            THEN IF getDisplayName(t, item) # Null
                 THEN indexOfFound(toLowerCase(getDisplayName(t, item)), text)
                 ELSE TRUE
            ELSE isGroup(t, item) /\ hasOriginalParent(t, item)

createFilterResults(t, comps, text) ==
    [id \in NodeIds(t) |-> recursivelyCheckFilter(t, comps, text, id)]

-----------------------------------------------------------------------------
(* Visibility propagation *)

\* passesFilterOf with false in place of true when there are no filter results
passesFilterOnlyWhenFiltering(filtering, filterResults, id) ==
    IF filtering THEN filterResults[id] ELSE FALSE

\* filterResults ? filterResults[id] : true   (filtering = filterResults is not null)
passesFilterOf(filtering, filterResults, id) ==
    IF filtering THEN filterResults[id] ELSE TRUE

\* childrenOpenOf without the ancestors: a group opens its children whenever it
\* is expanded itself
childrenOpenIgnoringAncestors(comps, child, parentGroupsOpen) ==
    IF child \in DOMAIN comps THEN isExpanded(comps, child) ELSE parentGroupsOpen

\* childrenOpenOf reading the display flag the group had before this pass
childrenOpenFromDisplayFlag(comps, child, parentGroupsOpen) ==
    IF child \in DOMAIN comps
    THEN comps[child].displayed /\ isExpanded(comps, child)
    ELSE parentGroupsOpen

\* childrenOpen of the group child, comps being the registry that
\* recursivelySetVisibility found when it reached child
childrenOpenOf(comps, child, parentGroupsOpen) ==
    IF child \in DOMAIN comps
    THEN IF parentGroupsOpen THEN isExpanded(comps, child) ELSE FALSE
    ELSE parentGroupsOpen

RECURSIVE recursivelySetVisibility(_, _, _, _, _, _)
recursivelySetVisibility(t, comps, tree, parentGroupsOpen, filtering, filterResults) ==
    IF tree = <<>> THEN comps
    ELSE LET child == Head(tree)
             hasComp == child \in DOMAIN comps
             shown == IF hasComp
                      THEN setDisplayed(comps, child,
                               parentGroupsOpen
                               /\ passesFilterOf(filtering, filterResults, child))
                      ELSE comps
             childrenOpen == childrenOpenOf(comps, child, parentGroupsOpen)
             below == IF isGroup(t, child)
                      THEN recursivelySetVisibility(t, shown, getChildren(t, child),
                               childrenOpen, filtering, filterResults)
                      ELSE shown
         IN recursivelySetVisibility(t, below, Tail(tree), parentGroupsOpen,
                                     filtering, filterResults)

\* updateVisibilityOfRows expanding every group item first when a filter is set
updateVisibilityOfRowsExpandingGroups(t, comps, text) ==
    recursivelySetVisibility(t,
        [id \in DOMAIN comps |->
            IF comps[id].group /\ exists(text)
            THEN [comps[id] EXCEPT !.expanded = TRUE]
            ELSE comps[id]],
        Trees[t].roots, TRUE, exists(text),
        IF exists(text) THEN createFilterResults(t, comps, text) ELSE <<>>)

\* updateVisibilityOfRows on a defined tree: the registry afterwards
updateVisibilityOfRows(t, comps, text) ==
    LET filtering == exists(text)
        filterResults == IF filtering THEN createFilterResults(t, comps, text)
                         ELSE <<>>
    IN recursivelySetVisibility(t, comps, Trees[t].roots, TRUE, filtering,
                                filterResults)

-----------------------------------------------------------------------------
(* Aggregate expansion state *)

CHECKED == "CHECKED"
UNCHECKED == "UNCHECKED"
INDETERMINATE == "INDETERMINATE"

addCounts(a, b, c) == <<a[1] + b[1] + c[1], a[2] + b[2] + c[2]>>

\* recursiveFunc without the `if (comp)` test: a group that has no item is
\* counted as not expanded
RECURSIVE recursiveFuncOfEveryGroup(_, _, _)
recursiveFuncOfEveryGroup(t, comps, items) ==
    IF items = <<>> THEN <<0, 0>>
    ELSE addCounts(
             IF isGroup(t, Head(items))
             THEN IF Head(items) \in DOMAIN comps /\ isExpanded(comps, Head(items))
                  THEN <<1, 0>> ELSE <<0, 1>>
             ELSE <<0, 0>>,
             IF isGroup(t, Head(items))
             THEN recursiveFuncOfEveryGroup(t, comps, getChildren(t, Head(items)))
             ELSE <<0, 0>>,
             recursiveFuncOfEveryGroup(t, comps, Tail(items)))

\* <<expandedCount, notExpandedCount>> of recursiveFunc(items)
RECURSIVE recursiveFunc(_, _, _)
recursiveFunc(t, comps, items) ==
    IF items = <<>> THEN <<0, 0>>
    ELSE LET item == Head(items)
             own == IF isGroup(t, item) /\ item \in DOMAIN comps
                    THEN IF isExpanded(comps, item) THEN <<1, 0>> ELSE <<0, 1>>
                    ELSE <<0, 0>>
             sub == IF isGroup(t, item)
                    THEN recursiveFunc(t, comps, getChildren(t, item))
                    ELSE <<0, 0>>
             rest == recursiveFunc(t, comps, Tail(items))
         IN addCounts(own, sub, rest)

\* stateOf with the first test weakened from "and" to "or"
stateOfEagerlyMixed(expandedCount, notExpandedCount) ==
    IF expandedCount > 0 \/ notExpandedCount > 0 THEN INDETERMINATE
    ELSE IF notExpandedCount > 0 THEN UNCHECKED
    ELSE CHECKED

\* stateOf asking for an expanded group before it answers fully-expanded
stateOfCollapsedWhenEmpty(expandedCount, notExpandedCount) ==
    IF expandedCount > 0 /\ notExpandedCount > 0 THEN INDETERMINATE
    ELSE IF expandedCount > 0 THEN CHECKED
    ELSE UNCHECKED

\* the state fireExpandedEvent derives from its two counts
stateOf(expandedCount, notExpandedCount) ==
    IF expandedCount > 0 /\ notExpandedCount > 0 THEN INDETERMINATE
    ELSE IF notExpandedCount > 0 THEN UNCHECKED
    ELSE CHECKED

stateOfCounts(counts) == stateOf(counts[1], counts[2])

\* the state fireExpandedEvent dispatches
expandedState(t, comps) == stateOfCounts(recursiveFunc(t, comps, Trees[t].roots))

-----------------------------------------------------------------------------
(* Handlers, as functions of the panel's fields *)

GroupExpandedEvent(state) == <<"groupExpanded", state>>

\* fireExpandedEvent, the registry being shown after updateVisibilityOfRows
fireExpandedEvent(t, shown, trace) ==
    [comps |-> shown,
     log |-> trace \o << <<"updateVisibilityOfRows">>,
                         GroupExpandedEvent(expandedState(t, shown)) >>]

\* onGroupExpanded without updateVisibilityOfRows: the event alone
onGroupExpandedSkippingVisibility(t, comps, text, trace) ==
    [comps |-> comps,
     log |-> Append(trace, GroupExpandedEvent(expandedState(t, comps)))]

\* onGroupExpanded on a defined tree: the registry and the log afterwards
onGroupExpanded(t, comps, text, trace) ==
    fireExpandedEvent(t, updateVisibilityOfRows(t, comps, text), trace)

\* ToolPanelColumnGroupComp.setExpanded(value): a change of the flag invokes the
\* expanded callback the panel passed to the item, which is onGroupExpanded
setExpanded(t, comps, text, id, value, trace) ==
    IF comps[id].expanded # value
    THEN onGroupExpanded(t, [comps EXCEPT ![id].expanded = value], text, trace)
    ELSE [comps |-> comps, log |-> trace]

\* the callback of _.iterateObject in doSetExpandedAll, over the keys left
RECURSIVE doSetExpandedAllFrom(_, _, _, _, _)
doSetExpandedAllFrom(t, text, keys, value, acc) ==
    IF keys = <<>> THEN acc
    ELSE doSetExpandedAllFrom(t, text, Tail(keys), value,
            IF isExpandable(t, acc.comps, Head(keys))
            THEN setExpanded(t, acc.comps, text, Head(keys), value, acc.log)
            ELSE acc)

\* doSetExpandedAll without the isExpandable test: every group item is set
doSetExpandedAllOfEveryGroup(t, defined, comps, order, text, value, trace) ==
    [comps |-> [id \in DOMAIN comps |->
                   IF comps[id].group THEN [comps[id] EXCEPT !.expanded = value]
                   ELSE comps[id]],
     log |-> trace]

doSetExpandedAll(t, defined, comps, order, text, value, trace) ==
    doSetExpandedAllFrom(t, text, iterationOrder(defined, order), value,
                         [comps |-> comps, log |-> trace])

\* expandedGroupIds.push(key) after renderedItem.setExpanded(expand) gave set
pushExpanded(set, expandedGroupIds, key) ==
    [comps |-> set.comps, log |-> set.log,
     expandedGroupIds |-> Append(expandedGroupIds, key)]

\* the callback of _.iterateObject in setGroupsExpanded, over the keys left
RECURSIVE setGroupsExpandedFrom(_, _, _, _, _, _)
setGroupsExpandedFrom(t, text, keys, expand, groupIds, acc) ==
    IF keys = <<>> THEN acc
    ELSE setGroupsExpandedFrom(t, text, Tail(keys), expand, groupIds,
            IF isExpandable(t, acc.comps, Head(keys))
               /\ inArray(groupIds, Head(keys))
            THEN pushExpanded(
                     setExpanded(t, acc.comps, text, Head(keys), expand, acc.log),
                     acc.expandedGroupIds, Head(keys))
            ELSE acc)

\* unrecognisedGroupIdsOf with the test inverted: the ids that were expanded
recognisedGroupIdsOf(groupIds, expandedGroupIds) ==
    SelectSeq(groupIds, LAMBDA groupId : inArray(expandedGroupIds, groupId))

\* groupIds.filter(groupId => expandedGroupIds.indexOf(groupId) < 0)
unrecognisedGroupIdsOf(groupIds, expandedGroupIds) ==
    SelectSeq(groupIds, LAMBDA groupId : ~inArray(expandedGroupIds, groupId))

WarnEntry(unrecognisedGroupIds) == <<"console.warn", unrecognisedGroupIds>>

\* the warning of setGroupsExpanded, done being the outcome of its loop
warnUnrecognised(groupIds, done, unrecognisedGroupIds) ==
    [comps |-> done.comps,
     log |-> IF Len(unrecognisedGroupIds) > 0
             THEN Append(done.log, WarnEntry(unrecognisedGroupIds))
             ELSE done.log]

warnOf(groupIds, done) ==
    warnUnrecognised(groupIds, done,
                     unrecognisedGroupIdsOf(groupIds, done.expandedGroupIds))

\* setGroupsExpanded giving up, with the warning, when an id has no expandable item
setGroupsExpandedAllOrNothing(t, defined, comps, order, text, expand, groupIds, trace) ==
    IF groupIds = Undefined
    THEN doSetExpandedAll(t, defined, comps, order, text, expand, trace)
    ELSE IF \E i \in 1..Len(groupIds) :
               ~(defined /\ groupIds[i] \in DOMAIN comps
                 /\ isExpandable(t, comps, groupIds[i]))
         THEN warnOf(groupIds, [comps |-> comps, log |-> trace,
                                expandedGroupIds |-> <<>>])
         ELSE warnOf(groupIds,
                  setGroupsExpandedFrom(t, text, iterationOrder(defined, order),
                      expand, groupIds,
                      [comps |-> comps, log |-> trace, expandedGroupIds |-> <<>>]))

setGroupsExpanded(t, defined, comps, order, text, expand, groupIds, trace) ==
    IF groupIds = Undefined
    THEN doSetExpandedAll(t, defined, comps, order, text, expand, trace)
    ELSE warnOf(groupIds,
             setGroupsExpandedFrom(t, text, iterationOrder(defined, order),
                 expand, groupIds,
                 [comps |-> comps, log |-> trace, expandedGroupIds |-> <<>>]))

\* destroyColumnComps: the log, and whether an item was destroyed a second time
RECURSIVE destroyEach(_, _)
destroyEach(comps, keys) ==
    IF keys = <<>> THEN <<>>
    ELSE << <<"destroy", Head(keys)>> >> \o destroyEach(comps, Tail(keys))

\* destroyColumnComps without the final this.columnComps = {}
destroyColumnCompsKeepingRegistry(defined, comps, order, trace, twice) ==
    [comps |-> [id \in DOMAIN comps |-> [comps[id] EXCEPT !.destroyed = TRUE]],
     gui |-> <<>>,
     log |-> trace \o << <<"clearElement">> >>
                   \o destroyEach(comps, IF defined
                                         THEN [i \in 1..Len(order) |-> order[i]]
                                         ELSE <<>>),
     destroyedTwice |-> twice \/ \E id \in DOMAIN comps : comps[id].destroyed]

destroyColumnComps(defined, comps, order, trace, twice) ==
    [comps |-> <<>>,
     gui |-> <<>>,
     log |-> trace \o << <<"clearElement">> >>
                   \o destroyEach(comps, iterationOrder(defined, order)),
     destroyedTwice |-> twice \/ \E id \in DOMAIN comps : comps[id].destroyed]

\* the column leaves of a tree in order: columnApi.getPrimaryColumns()
RECURSIVE leavesOf(_, _)
leavesOf(t, items) ==
    IF items = <<>> THEN <<>>
    ELSE (IF isGroup(t, Head(items)) THEN leavesOf(t, getChildren(t, Head(items)))
          ELSE <<Head(items)>>) \o leavesOf(t, Tail(items))

getPrimaryColumns(m) == IF m # 0 THEN leavesOf(m, Trees[m].roots) ELSE <<>>

RECURSIVE notifyEach(_, _)
notifyEach(keys, checked) ==
    IF keys = <<>> THEN <<>>
    ELSE << <<"onSelectAllChanged", Head(keys), checked>> >>
         \o notifyEach(Tail(keys), checked)

\* doSetSelectedAll without the pivot-mode test: always the bulk call
doSetSelectedAllInBulk(isPivotMode, defined, order, primaryCols, checked) ==
    << <<"setColumnsVisible", primaryCols, checked>> >>

\* doSetSelectedAll: the calls it makes
doSetSelectedAll(isPivotMode, defined, order, primaryCols, checked) ==
    IF isPivotMode
    THEN notifyEach(iterationOrder(defined, order), checked)
    ELSE << <<"setColumnsVisible", primaryCols, checked>> >>

\* the filter text setFilterText stores
normalisedFilterText(text) == IF exists(text) THEN toLowerCase(text) ELSE Null

RECURSIVE createEntries(_)
createEntries(created) ==
    IF created = <<>> THEN <<>>
    ELSE << <<"create", Head(created)[1], Head(created)[2]>> >>
         \o createEntries(Tail(created))

\* rebuiltFrom with the new items created before the old ones are destroyed
rebuiltFromCreatingFirst(t, gone, created, text, expandByDefault) ==
    [comps |-> updateVisibilityOfRows(t, RegistryOf(created, expandByDefault), text),
     gui |-> [i \in 1..Len(created) |-> created[i][1]],
     log |-> createEntries(created) \o gone.log
                                   \o << <<"updateVisibilityOfRows">> >>,
     destroyedTwice |-> gone.destroyedTwice]

\* the rest of a rebuild, after destroyColumnComps gave gone and
\* recursivelyAddComps created the items
rebuiltFrom(t, gone, created, text, expandByDefault) ==
    [comps |-> updateVisibilityOfRows(t, RegistryOf(created, expandByDefault), text),
     gui |-> [i \in 1..Len(created) |-> created[i][1]],
     log |-> gone.log \o createEntries(created)
                      \o << <<"updateVisibilityOfRows">> >>,
     destroyedTwice |-> gone.destroyedTwice]

\* onColumnsChanged / setColumnLayout once the new tree t is known
rebuild(t, defined, comps, order, text, expandByDefault, trace, twice) ==
    rebuiltFrom(t, destroyColumnComps(defined, comps, order, trace, twice),
                recursivelyAddComps(t, Trees[t].roots, 0), text, expandByDefault)

-----------------------------------------------------------------------------
(* Inputs *)

TextRev == <<"r", "e", "v">>
TextRevMixed == <<"R", "e", "V">>

\* the texts passed to setFilterText
FilterTexts == {Null, <<>>, TextRev, TextRevMixed}

\* the ids passed in groupIds: a group, a column and an id of no node
GroupIdChoices == <<"gA", "c1", "zz">>

\* the sub-arrays of arr, each keeping the order of arr
RECURSIVE SubArrays(_)
SubArrays(arr) ==
    IF arr = <<>> THEN {<<>>}
    ELSE LET rest == SubArrays(Tail(arr))
         IN rest \cup {<<Head(arr)>> \o q : q \in rest}

\* groupIds of setGroupsExpanded: omitted, or an array of at most MaxGroupIds ids
GroupIdsArgs ==
    {Undefined} \cup {q \in SubArrays(GroupIdChoices) : Len(q) <= MaxGroupIds}

\* the column model as a call finds it: not ready (0), or holding a tree
ColumnModels == {0} \cup TreeIds

\* subscriptions without the test of syncLayoutWithGrid
subscriptionsWithMoves(syncLayoutWithGrid) ==
    {"columnEverythingChanged", "columnMoved"}

\* the events init subscribes the panel to
subscriptions(syncLayoutWithGrid) ==
    {"columnEverythingChanged"}
    \cup (IF syncLayoutWithGrid THEN {"columnMoved"} ELSE {})

\* isReady answering false whatever the column model holds
isReadyNever(m) == FALSE

\* this.columnController.isReady()
isReady(m) == m # 0

Op(name, flag, also, ids, text, tree) ==
    [name |-> name, flag |-> flag, also |-> also, ids |-> ids, text |-> text,
     tree |-> tree]

-----------------------------------------------------------------------------
(* The state machine *)

Init ==
    /\ phase = "constructed"
    /\ listeners = {}
    /\ expandGroupsByDefault = FALSE
    /\ columnTree = 0
    /\ compsDefined = FALSE
    /\ columnComps = <<>>
    /\ gui = <<>>
    /\ filterText = Undefined
    /\ lastOp = Op("new", FALSE, FALSE, Undefined, Undefined, 0)
    /\ log = <<>>
    /\ error = FALSE
    /\ destroyedTwice = FALSE

\* the assignments of a rebuild from tree t
Rebuilt(t, expandByDefault) ==
    \E built \in {rebuild(t, compsDefined, columnComps, gui, filterText,
                          expandByDefault, <<>>, destroyedTwice)} :
       /\ columnTree' = t
       /\ compsDefined' = TRUE
       /\ columnComps' = built.comps
       /\ gui' = built.gui
       /\ log' = built.log
       /\ destroyedTwice' = built.destroyedTwice
       /\ error' = FALSE

PanelUnchanged ==
    UNCHANGED <<columnTree, compsDefined, columnComps, gui, destroyedTwice>>

\* init(params, allowDragging); m is the column model: 0 while isReady() is false
InitPanel(syncLayoutWithGrid, contractColumnSelection, m) ==
    /\ phase = "constructed"
    /\ phase' = "initialised"
    /\ listeners' = subscriptions(syncLayoutWithGrid)
    /\ expandGroupsByDefault' = ~contractColumnSelection
    /\ IF isReady(m)
       THEN Rebuilt(m, ~contractColumnSelection)
       ELSE PanelUnchanged /\ log' = <<>> /\ error' = FALSE
    /\ lastOp' = Op("init", syncLayoutWithGrid, contractColumnSelection,
                    Undefined, Undefined, m)
    /\ UNCHANGED filterText

\* EVENT_COLUMN_EVERYTHING_CHANGED is dispatched, the column model holding tree t;
\* a subscribed panel runs onColumnsChanged
ColumnEverythingChanged(t) ==
    /\ phase # "constructed"
    /\ IF "columnEverythingChanged" \in listeners
       THEN Rebuilt(t, expandGroupsByDefault)
       ELSE PanelUnchanged /\ log' = <<>> /\ error' = FALSE
    /\ lastOp' = Op("columnEverythingChanged", FALSE, FALSE, Undefined,
                    Undefined, t)
    /\ UNCHANGED <<phase, listeners, expandGroupsByDefault, filterText>>

\* setColumnLayout(colDefs), t the tree createColumnTree(colDefs) returns
SetColumnLayout(t) ==
    /\ phase # "constructed"
    /\ Rebuilt(t, expandGroupsByDefault)
    /\ lastOp' = Op("setColumnLayout", FALSE, FALSE, Undefined, Undefined, t)
    /\ UNCHANGED <<phase, listeners, expandGroupsByDefault, filterText>>

\* EVENT_COLUMN_MOVED is dispatched; a subscribed panel runs syncColumnLayout, and
\* syncLayoutWithGrid calls setColumnLayout back with the layout t of the grid
ColumnMoved(t) ==
    /\ phase # "constructed"
    /\ IF "columnMoved" \in listeners
       THEN Rebuilt(t, expandGroupsByDefault)
       ELSE PanelUnchanged /\ log' = <<>> /\ error' = FALSE
    /\ lastOp' = Op("columnMoved", FALSE, FALSE, Undefined, Undefined, t)
    /\ UNCHANGED <<phase, listeners, expandGroupsByDefault, filterText>>

\* the user clicks the expand / contract icon of the group item id
GroupClicked(id) ==
    /\ compsDefined
    /\ id \in DOMAIN columnComps
    /\ isExpandable(columnTree, columnComps, id)
    /\ columnComps[id].displayed
    /\ \E done \in {setExpanded(columnTree, columnComps, filterText, id,
                                ~columnComps[id].expanded, <<>>)} :
          columnComps' = done.comps /\ log' = done.log
    /\ error' = FALSE
    /\ lastOp' = Op("groupClicked", FALSE, FALSE, <<id>>, Undefined, 0)
    /\ UNCHANGED <<phase, listeners, expandGroupsByDefault, columnTree,
                   compsDefined, gui, filterText, destroyedTwice>>

\* a direct call of onGroupExpanded(); without a tree columnTree.forEach throws
OnGroupExpanded ==
    /\ phase # "constructed"
    /\ IF columnTree = 0
       THEN UNCHANGED columnComps /\ log' = <<>> /\ error' = TRUE
       ELSE \E done \in {onGroupExpanded(columnTree, columnComps, filterText,
                                         <<>>)} :
               columnComps' = done.comps /\ log' = done.log /\ error' = FALSE
    /\ lastOp' = Op("onGroupExpanded", FALSE, FALSE, Undefined, Undefined, 0)
    /\ UNCHANGED <<phase, listeners, expandGroupsByDefault, columnTree,
                   compsDefined, gui, filterText, destroyedTwice>>

\* doSetExpandedAll(value)
SetExpandedAll(value) ==
    /\ phase # "constructed"
    /\ \E done \in {doSetExpandedAll(columnTree, compsDefined, columnComps, gui,
                                     filterText, value, <<>>)} :
          columnComps' = done.comps /\ log' = done.log
    /\ error' = FALSE
    /\ lastOp' = Op("doSetExpandedAll", value, FALSE, Undefined, Undefined, 0)
    /\ UNCHANGED <<phase, listeners, expandGroupsByDefault, columnTree,
                   compsDefined, gui, filterText, destroyedTwice>>

\* setGroupsExpanded(expand, groupIds)
SetGroupsExpanded(expand, groupIds) ==
    /\ phase # "constructed"
    /\ \E done \in {setGroupsExpanded(columnTree, compsDefined, columnComps, gui,
                                      filterText, expand, groupIds, <<>>)} :
          columnComps' = done.comps /\ log' = done.log
    /\ error' = FALSE
    /\ lastOp' = Op("setGroupsExpanded", expand, FALSE, groupIds, Undefined, 0)
    /\ UNCHANGED <<phase, listeners, expandGroupsByDefault, columnTree,
                   compsDefined, gui, filterText, destroyedTwice>>

\* doSetSelectedAll(checked); isPivotMode and m are what columnApi answers
SetSelectedAll(checked, isPivotMode, m) ==
    /\ phase # "constructed"
    /\ log' = doSetSelectedAll(isPivotMode, compsDefined, gui,
                               getPrimaryColumns(m), checked)
    /\ error' = FALSE
    /\ lastOp' = Op("doSetSelectedAll", checked, isPivotMode, Undefined,
                    Undefined, m)
    /\ UNCHANGED <<phase, listeners, expandGroupsByDefault, columnTree,
                   compsDefined, columnComps, gui, filterText, destroyedTwice>>

\* setFilterText(text); without a tree columnTree.forEach throws after the
\* assignment of this.filterText
SetFilterText(text) ==
    /\ phase # "constructed"
    /\ filterText' = normalisedFilterText(text)
    /\ IF columnTree = 0
       THEN UNCHANGED columnComps /\ log' = <<>> /\ error' = TRUE
       ELSE /\ columnComps' = updateVisibilityOfRows(columnTree, columnComps,
                                                     normalisedFilterText(text))
            /\ log' = << <<"updateVisibilityOfRows">> >>
            /\ error' = FALSE
    /\ lastOp' = Op("setFilterText", FALSE, FALSE, Undefined, text, 0)
    /\ UNCHANGED <<phase, listeners, expandGroupsByDefault, columnTree,
                   compsDefined, gui, destroyedTwice>>

\* destroy(): Component.destroy() removes the listeners, then destroyColumnComps()
Destroy ==
    /\ phase # "constructed"
    /\ phase' = "destroyed"
    /\ listeners' = {}
    /\ \E gone \in {destroyColumnComps(compsDefined, columnComps, gui, <<>>,
                                       destroyedTwice)} :
          /\ columnComps' = gone.comps
          /\ gui' = gone.gui
          /\ log' = gone.log
          /\ destroyedTwice' = gone.destroyedTwice
    /\ compsDefined' = TRUE
    /\ error' = FALSE
    /\ lastOp' = Op("destroy", FALSE, FALSE, Undefined, Undefined, 0)
    /\ UNCHANGED <<expandGroupsByDefault, columnTree, filterText>>

Next ==
    \/ \E s \in BOOLEAN, c \in BOOLEAN, m \in ColumnModels : InitPanel(s, c, m)
    \/ \E t \in TreeIds : ColumnEverythingChanged(t)
    \/ \E t \in TreeIds : SetColumnLayout(t)
    \/ \E t \in TreeIds : ColumnMoved(t)
    \/ \E id \in AllIds : GroupClicked(id)
    \/ OnGroupExpanded
    \/ \E value \in BOOLEAN : SetExpandedAll(value)
    \/ \E expand \in BOOLEAN, groupIds \in GroupIdsArgs :
          SetGroupsExpanded(expand, groupIds)
    \/ \E checked \in BOOLEAN : SetSelectedAll(checked, TRUE, 0)
    \/ \E checked \in BOOLEAN, m \in ColumnModels :
          SetSelectedAll(checked, FALSE, m)
    \/ \E text \in FilterTexts : SetFilterText(text)
    \/ Destroy

Spec == Init /\ [][Next]_vars

-----------------------------------------------------------------------------
(* Vocabulary of the properties *)

ItemIds == DOMAIN columnComps

GroupItemIds == {id \in ItemIds : columnComps[id].group}

\* the ancestors of a node that have an item
ItemAncestors(id) == Ancestors(columnTree, id) \cap ItemIds

FilteringActive == exists(filterText)

\* the last step ran onColumnsChanged: a rebuild from the column model
RebuiltFromColumnModel ==
    \/ lastOp.name = "init" /\ lastOp.tree # 0
    \/ lastOp.name = "columnEverythingChanged"
       /\ "columnEverythingChanged" \in listeners

\* the lower-cased display name of an item contains the filter text
NameContainsFilter(id) ==
    /\ getDisplayName(columnTree, id) # Null
    /\ indexOfFound(toLowerCase(getDisplayName(columnTree, id)), filterText)

-----------------------------------------------------------------------------
(* C1 *)

\* C1: in every reachable state every item of the registry is displayed if and
\* only if (filtering is disabled or the filter result of its node is true) and
\* every ancestor group that has an item is expanded and is itself displayed.
C1_DisplayRule ==
    \A id \in ItemIds :
        columnComps[id].displayed
        <=> /\ FilteringActive
               => createFilterResults(columnTree, columnComps, filterText)[id]
            /\ \A a \in ItemAncestors(id) :
                   columnComps[a].expanded /\ columnComps[a].displayed

\* with a filter active, an item that passes it is hidden below a collapsed
\* group, and an item is hidden below an expanded group whose parent is collapsed
C1_Witness ==
    /\ FilteringActive
    /\ \E id \in ItemIds :
          /\ ~columnComps[id].displayed
          /\ createFilterResults(columnTree, columnComps, filterText)[id]
          /\ \E a \in ItemAncestors(id) : ~columnComps[a].expanded
    /\ \E id \in ItemIds :
          /\ ~columnComps[id].displayed
          /\ \E a, b \in ItemAncestors(id) :
                /\ a \in ItemAncestors(b)
                /\ ~columnComps[a].expanded
                /\ columnComps[b].expanded

-----------------------------------------------------------------------------
(* C2 *)

\* the registry holds exactly the ids of S, each once in the rendered output
RegistryIsExactly(S) ==
    /\ ItemIds = S
    /\ Len(gui) = Cardinality(S)
    /\ {gui[i] : i \in 1..Len(gui)} = S

\* C2 as claimed: right after a rebuild from the column model the registry holds
\* exactly one entry for each node that is neither suppressed nor a padding group.
C2_Original ==
    RebuiltFromColumnModel
    => RegistryIsExactly({id \in NodeIds(columnTree) :
                             /\ ~suppressToolPanel(columnTree, id)
                             /\ ~isPadding(columnTree, id)})

\* C2 amended: right after a rebuild from the column model the registry holds
\* exactly one entry for each node that is neither suppressed nor a padding group
\* and lies below no suppressed group, and no entry for any other node.
C2_RegistryAfterRebuild ==
    RebuiltFromColumnModel
    => RegistryIsExactly({id \in NodeIds(columnTree) :
                             /\ ~suppressToolPanel(columnTree, id)
                             /\ ~isPadding(columnTree, id)
                             /\ \A a \in Ancestors(columnTree, id) :
                                    ~suppressToolPanel(columnTree, a)})

\* a rebuild from a column model with a suppressed column, a suppressed group and
\* a column below it
C2_Witness ==
    /\ RebuiltFromColumnModel
    /\ \E id \in NodeIds(columnTree) :
          /\ ~isGroup(columnTree, id) /\ suppressToolPanel(columnTree, id)
    /\ \E id \in NodeIds(columnTree) :
          /\ ~suppressToolPanel(columnTree, id)
          /\ \E a \in Ancestors(columnTree, id) : suppressToolPanel(columnTree, a)
    /\ ItemIds # {}

-----------------------------------------------------------------------------
(* C3 *)

\* C3 as claimed: with a filter text set and every group item expanded, a column
\* item is displayed iff its lower-cased name contains the text, and a group item
\* iff its own name does or an item below it passes the filter.  (Items without
\* a display name are left out: the claim speaks of names.)
C3_Original ==
    (columnTree # 0 /\ FilteringActive
     /\ \A g \in GroupItemIds : columnComps[g].expanded)
    => \A id \in ItemIds :
          getDisplayName(columnTree, id) # Null
          => (columnComps[id].displayed
              <=> \/ NameContainsFilter(id)
                  \/ /\ columnComps[id].group
                     /\ \E d \in Descendants(columnTree, id) \cap ItemIds :
                           NameContainsFilter(d))

-----------------------------------------------------------------------------
(* C4, C5 *)

\* id names an expandable item of the registry
MatchesExpandableItem(id) ==
    id \in ItemIds /\ isExpandable(columnTree, columnComps, id)

\* the requested ids that name no expandable item of the registry
Unmatched(ids) == SelectSeq(ids, LAMBDA id : ~MatchesExpandableItem(id))

Warnings(trace) == SelectSeq(trace, LAMBDA e : e[1] = "console.warn")

\* the step is a call setGroupsExpanded(expand, ids) with ids given
SetGroupsExpandedWithIds ==
    lastOp'.name = "setGroupsExpanded" /\ lastOp'.ids # Undefined

\* C4 as claimed: setGroupsExpanded(expand, ids) with no id of ids naming an
\* expandable item leaves the registry and every expansion flag unchanged, records
\* a warning and raises no error.
C4_Original ==
    [][(SetGroupsExpandedWithIds /\ Unmatched(lastOp'.ids) = lastOp'.ids)
       => /\ columnComps' = columnComps
          /\ Warnings(log') # <<>>
          /\ ~error']_vars

\* C4 amended: setGroupsExpanded(expand, ids) with no id of ids naming an
\* expandable item leaves the registry and every expansion flag unchanged and
\* raises no error; it records one warning, naming ids, when ids is not empty,
\* and none when ids is empty.
C4_NoMatchingId ==
    [][(SetGroupsExpandedWithIds /\ Unmatched(lastOp'.ids) = lastOp'.ids)
       => /\ columnComps' = columnComps
          /\ Warnings(log') = (IF lastOp'.ids # <<>>
                               THEN <<WarnEntry(lastOp'.ids)>>
                               ELSE <<>>)
          /\ ~error']_vars

\* setGroupsExpanded with the ids of a column and of no node, on a registry with
\* a collapsed expandable group, has warned
C4_Witness ==
    /\ lastOp.name = "setGroupsExpanded"
    /\ lastOp.flag
    /\ lastOp.ids = <<"c1", "zz">>
    /\ Warnings(log) = <<WarnEntry(<<"c1", "zz">>)>>
    /\ "c1" \in ItemIds
    /\ \E g \in GroupItemIds : MatchesExpandableItem(g) /\ ~columnComps[g].expanded

\* C5: setGroupsExpanded(expand, ids) sets the expansion flag to expand for
\* exactly the expandable items whose id is in ids, leaves every other item's
\* flag and the registry's keys unchanged, and warns exactly of the requested ids
\* that name no expandable item (columns included), once, after applying the
\* known ids; without such ids it does not warn.
C5_KnownAndUnknownIds ==
    [][SetGroupsExpandedWithIds
       => /\ DOMAIN columnComps' = ItemIds
          /\ \A id \in ItemIds :
                columnComps'[id].expanded
                = (IF MatchesExpandableItem(id) /\ inArray(lastOp'.ids, id)
                   THEN lastOp'.flag
                   ELSE columnComps[id].expanded)
          /\ Warnings(log') = (IF Unmatched(lastOp'.ids) # <<>>
                               THEN <<WarnEntry(Unmatched(lastOp'.ids))>>
                               ELSE <<>>)
          /\ ~error']_vars

\* setGroupsExpanded(false, [gA, zz]) has collapsed the group gA, which the
\* log's event shows, and has warned of zz alone
C5_Witness ==
    /\ lastOp.name = "setGroupsExpanded"
    /\ ~lastOp.flag
    /\ lastOp.ids = <<"gA", "zz">>
    /\ "gA" \in ItemIds
    /\ ~columnComps["gA"].expanded
    /\ Len(log) = 3
    /\ log[2][1] = "groupExpanded"
    /\ log[3] = WarnEntry(<<"zz">>)

-----------------------------------------------------------------------------
(* C6 *)

Calls(trace, name) == SelectSeq(trace, LAMBDA e : e[1] = name)

\* the columns of the column model m, suppressed or not
PrimaryColumnsOf(m) ==
    IF m = 0 THEN {} ELSE {id \in NodeIds(m) : ~isGroup(m, id)}

\* C6: setSelectedAll(checked) in pivot mode notifies every item of the registry
\* once and makes no bulk call; out of pivot mode it makes one bulk set-visible
\* call, for all the primary columns, and notifies no item.
C6_SelectAll ==
    lastOp.name = "doSetSelectedAll"
    => IF lastOp.also
       THEN /\ Calls(log, "setColumnsVisible") = <<>>
            /\ Len(log) = Cardinality(ItemIds)
            /\ \A id \in ItemIds :
                  \E i \in 1..Len(log) :
                      log[i] = <<"onSelectAllChanged", id, lastOp.flag>>
       ELSE /\ Calls(log, "onSelectAllChanged") = <<>>
            /\ Len(log) = 1
            /\ log[1][1] = "setColumnsVisible"
            /\ {log[1][2][i] : i \in 1..Len(log[1][2])} = PrimaryColumnsOf(lastOp.tree)
            /\ Len(log[1][2]) = Cardinality(PrimaryColumnsOf(lastOp.tree))
            /\ log[1][3] = lastOp.flag

\* setSelectedAll(true) in pivot mode on a registry of several items, one hidden
C6_Witness ==
    /\ lastOp.name = "doSetSelectedAll"
    /\ lastOp.also
    /\ lastOp.flag
    /\ Len(log) >= 3
    /\ \E id \in ItemIds : ~columnComps[id].displayed

-----------------------------------------------------------------------------
(* C7 *)

DisplayFlags(comps) == [id \in DOMAIN comps |-> comps[id].displayed]

\* C7: after a build, a second setFilterText(t) right after setFilterText(t)
\* changes neither the filter text nor any display flag.
C7_FilterTextIdempotent ==
    [][(columnTree # 0
        /\ lastOp.name = "setFilterText"
        /\ lastOp'.name = "setFilterText"
        /\ lastOp'.text = lastOp.text)
       => /\ filterText' = filterText
          /\ DisplayFlags(columnComps') = DisplayFlags(columnComps)
          /\ ~error']_vars

\* setFilterText has hidden a group and the column below it
C7_Witness ==
    /\ lastOp.name = "setFilterText"
    /\ FilteringActive
    /\ \E g \in GroupItemIds :
          /\ ~columnComps[g].displayed
          /\ \E d \in Descendants(columnTree, g) \cap ItemIds :
                ~columnComps[d].displayed
    /\ \E id \in ItemIds : columnComps[id].displayed

-----------------------------------------------------------------------------
(* C8 *)

Events(trace) == Calls(trace, "groupExpanded")

\* the step is setGroupsExpanded(true, S), S ids of group items, right after
\* setGroupsExpanded(false) without ids
ExpandSubsetAfterCollapseAll ==
    /\ lastOp.name = "setGroupsExpanded" /\ ~lastOp.flag /\ lastOp.ids = Undefined
    /\ lastOp'.name = "setGroupsExpanded" /\ lastOp'.flag
    /\ lastOp'.ids # Undefined /\ lastOp'.ids # <<>>
    /\ \A i \in 1..Len(lastOp'.ids) : lastOp'.ids[i] \in GroupItemIds

\* C8 as claimed: after setGroupsExpanded(false) and then setGroupsExpanded(true,
\* S) for known group ids S, exactly the groups of S are expanded, every other
\* group item is collapsed, and the aggregate state is mixed.
C8_Original ==
    [][ExpandSubsetAfterCollapseAll
       => /\ \A g \in GroupItemIds :
                columnComps'[g].expanded = inArray(lastOp'.ids, g)
          /\ expandedState(columnTree, columnComps') = INDETERMINATE]_vars

\* C8 amended: after setGroupsExpanded(false) and then setGroupsExpanded(true, S)
\* for ids S of expandable group items, exactly the groups of S are expanded
\* among the expandable group items, every group item that is not expandable
\* keeps its flag, and the last event reports the aggregate state: mixed if some
\* group item is left collapsed, fully-expanded otherwise.
C8_SubsetAfterCollapseAll ==
    [][(ExpandSubsetAfterCollapseAll
        /\ \A i \in 1..Len(lastOp'.ids) : MatchesExpandableItem(lastOp'.ids[i]))
       => /\ \A g \in GroupItemIds :
                columnComps'[g].expanded
                = (IF MatchesExpandableItem(g) THEN inArray(lastOp'.ids, g)
                   ELSE columnComps[g].expanded)
          /\ Events(log') # <<>>
          /\ log'[Len(log')]
             = GroupExpandedEvent(
                   IF \E g \in GroupItemIds : ~columnComps'[g].expanded
                   THEN INDETERMINATE ELSE CHECKED)]_vars

\* setGroupsExpanded(true, [gA]) has expanded gA and left another group
\* collapsed, and the event reports mixed
C8_Witness ==
    /\ lastOp.name = "setGroupsExpanded"
    /\ lastOp.flag
    /\ lastOp.ids = <<"gA">>
    /\ "gA" \in GroupItemIds
    /\ columnComps["gA"].expanded
    /\ \E g \in GroupItemIds : ~columnComps[g].expanded
    /\ log = << <<"updateVisibilityOfRows">>, GroupExpandedEvent(INDETERMINATE) >>

-----------------------------------------------------------------------------
(* C9, C10 *)

\* C9: dispose destroys each item of the registry once, empties the registry and
\* the rendered output and raises no error; a second dispose right after it
\* destroys nothing and changes none of the panel's fields.
C9_DisposeIdempotent ==
    [][lastOp'.name = "destroy"
       => /\ DOMAIN columnComps' = {}
          /\ gui' = <<>>
          /\ ~error'
          /\ ~destroyedTwice'
          /\ Len(Calls(log', "destroy")) = Cardinality(ItemIds)
          /\ \A id \in ItemIds : \E i \in 1..Len(log') : log'[i] = <<"destroy", id>>
          /\ lastOp.name = "destroy"
             => /\ Calls(log', "destroy") = <<>>
                /\ UNCHANGED <<phase, listeners, expandGroupsByDefault,
                               columnTree, compsDefined, columnComps, gui,
                               filterText>>]_vars

\* dispose has destroyed the items of a built registry
C9_Witness ==
    /\ lastOp.name = "destroy"
    /\ columnTree # 0
    /\ Len(Calls(log, "destroy")) >= 3
    /\ ItemIds = {}
    /\ phase = "destroyed"

\* C10 as claimed: no public operation raises an error, in any reachable state.
C10_NoFatalError == ~error

-----------------------------------------------------------------------------
(* C11 *)

\* the nodes a build makes an item for
RenderedIds(t) ==
    {id \in NodeIds(t) :
        /\ ~suppressToolPanel(t, id)
        /\ ~isPadding(t, id)
        /\ \A a \in Ancestors(t, id) : ~suppressToolPanel(t, a)}

\* init has run and no build has happened yet
Deferred == phase # "constructed" /\ columnTree = 0

\* the step leaves the panel with a complete build of the tree of the step
FullBuild ==
    /\ columnTree' = lastOp'.tree
    /\ DOMAIN columnComps' = RenderedIds(lastOp'.tree)
    /\ Len(gui') = Cardinality(RenderedIds(lastOp'.tree))
    /\ {gui'[i] : i \in 1..Len(gui')} = RenderedIds(lastOp'.tree)
    /\ Len(Calls(log', "create")) = Cardinality(RenderedIds(lastOp'.tree))

\* the step is a structural-change notification reaching a subscribed panel
NotificationArrives ==
    /\ lastOp'.name = "columnEverythingChanged"
    /\ "columnEverythingChanged" \in listeners

\* what init does with the column model, and the first notification after a
\* deferred init
InitBuildsIffReady ==
    /\ lastOp'.name = "init"
       => IF lastOp'.tree = 0
          THEN /\ Deferred'
               /\ DOMAIN columnComps' = {}
               /\ gui' = <<>>
               /\ Calls(log', "create") = <<>>
          ELSE FullBuild
    /\ (Deferred /\ NotificationArrives) => FullBuild

\* C11 as claimed: init with a column model that is not ready builds nothing,
\* and the registry stays empty until a structural-change notification arrives,
\* which performs the first build; init with a ready column model builds.
C11_Original ==
    [][/\ InitBuildsIffReady
       /\ (Deferred /\ ~NotificationArrives) => DOMAIN columnComps' = {}]_vars

\* C11 amended: init with a column model that is not ready builds nothing, and
\* the registry stays empty until a structural-change notification arrives, an
\* explicit layout is set, or a column-moved notification reaches a panel that
\* syncs its layout; each of these performs the full first build.  Init with a
\* ready column model builds inside init.
C11_DeferredFirstBuild ==
    [][/\ InitBuildsIffReady
       /\ Deferred
          => IF \/ NotificationArrives
                \/ lastOp'.name = "setColumnLayout"
                \/ lastOp'.name = "columnMoved" /\ "columnMoved" \in listeners
             THEN FullBuild
             ELSE Deferred' /\ DOMAIN columnComps' = {} /\ gui' = <<>>]_vars

\* init found the column model not ready: subscribed, nothing built
C11_Witness ==
    /\ lastOp.name = "init"
    /\ lastOp.tree = 0
    /\ "columnEverythingChanged" \in listeners
    /\ Deferred
    /\ ItemIds = {}
    /\ gui = <<>>

-----------------------------------------------------------------------------
(* C12 *)

\* the step rebuilds the items: onColumnsChanged or setColumnLayout runs
RebuildStep ==
    \/ lastOp'.name = "init" /\ lastOp'.tree # 0
    \/ NotificationArrives
    \/ lastOp'.name = "setColumnLayout"
    \/ lastOp'.name = "columnMoved" /\ "columnMoved" \in listeners

\* the display flags of comps are those the filter text and the expansion
\* flags of comps give on tree t
FilterApplied(t, comps, text) ==
    \A id \in DOMAIN comps :
        comps[id].displayed
        <=> /\ exists(text) => createFilterResults(t, comps, text)[id]
            /\ \A a \in Ancestors(t, id) \cap DOMAIN comps :
                   comps[a].expanded /\ comps[a].displayed

\* C12: a rebuild keeps the filter text and applies it to the new items, and
\* leaves every group item with the configured default as its expansion flag,
\* whatever the flags were before; the default is the negation of the
\* contractColumnSelection given to init and no later step changes it.
C12_RebuildResetsExpansion ==
    [][/\ RebuildStep
          => /\ filterText' = filterText
             /\ FilterApplied(columnTree', columnComps', filterText)
             /\ \A g \in DOMAIN columnComps' :
                   columnComps'[g].group
                   => columnComps'[g].expanded = expandGroupsByDefault'
       /\ expandGroupsByDefault'
          = (IF lastOp'.name = "init" THEN ~lastOp'.also
             ELSE expandGroupsByDefault)]_vars

\* a notification has rebuilt a panel initialised with contractColumnSelection
\* and holding a filter text: the groups are collapsed, the filter hides a root
C12_Witness ==
    /\ lastOp.name = "columnEverythingChanged"
    /\ "columnEverythingChanged" \in listeners
    /\ ~expandGroupsByDefault
    /\ FilteringActive
    /\ GroupItemIds # {}
    /\ \A g \in GroupItemIds : ~columnComps[g].expanded
    /\ \E id \in ItemIds : ItemAncestors(id) = {} /\ ~columnComps[id].displayed
    /\ \E id \in ItemIds : columnComps[id].displayed

-----------------------------------------------------------------------------
(* C13 *)

\* the step is setExpandedAll(expand), or setGroupsExpanded(expand) without ids
ExpandAllStep ==
    \/ lastOp'.name = "doSetExpandedAll"
    \/ lastOp'.name = "setGroupsExpanded" /\ lastOp'.ids = Undefined

\* everything of an item but its display flag
Undisplayed(item) == [item EXCEPT !.displayed = TRUE]

\* C13: setExpandedAll(expand), and likewise setGroupsExpanded(expand) without
\* ids, sets the expansion flag of every expandable item to expand and leaves
\* the flag of every other item, the keys of the registry and the rendered
\* output as they were; the display flags afterwards are those the flags and
\* the filter text give, so both calls end in the same state; neither warns nor
\* raises an error.
C13_ExpandAll ==
    [][ExpandAllStep
       => /\ DOMAIN columnComps' = ItemIds
          /\ \A id \in ItemIds :
                Undisplayed(columnComps'[id])
                = [Undisplayed(columnComps[id]) EXCEPT
                      !.expanded = IF MatchesExpandableItem(id)
                                   THEN lastOp'.flag
                                   ELSE columnComps[id].expanded]
          /\ columnTree # 0
             => FilterApplied(columnTree, columnComps', filterText)
          /\ UNCHANGED <<gui, columnTree, filterText>>
          /\ Warnings(log') = <<>>
          /\ ~error']_vars

\* setGroupsExpanded(false) without ids has collapsed an expandable group and
\* left expanded a group item that has no item below it
C13_Witness ==
    /\ lastOp.name = "setGroupsExpanded"
    /\ lastOp.ids = Undefined
    /\ ~lastOp.flag
    /\ Events(log) # <<>>
    /\ \E g \in GroupItemIds : MatchesExpandableItem(g) /\ ~columnComps[g].expanded
    /\ \E g \in GroupItemIds : ~MatchesExpandableItem(g) /\ columnComps[g].expanded

-----------------------------------------------------------------------------
(* C14 *)

\* state is the aggregate of the expansion flags `flags` of the group items
ConsistentState(state, flags) ==
    /\ state = INDETERMINATE
       <=> (\E g \in DOMAIN flags : flags[g]) /\ (\E g \in DOMAIN flags : ~flags[g])
    /\ state = UNCHECKED
       <=> (\E g \in DOMAIN flags : ~flags[g]) /\ ~(\E g \in DOMAIN flags : flags[g])
    /\ state = CHECKED
       <=> ~(\E g \in DOMAIN flags : ~flags[g])

\* the items whose expansion flag the step changes, in the order of the registry
ChangedByStep ==
    SelectSeq(gui, LAMBDA id : columnComps'[id].expanded # columnComps[id].expanded)

\* the expansion flags of the group items once the first k changes of the step
\* are made
FlagsAfter(k) ==
    [g \in GroupItemIds |->
        IF \E i \in 1..k : ChangedByStep[i] = g
        THEN columnComps'[g].expanded
        ELSE columnComps[g].expanded]

\* the step is one that can change expansion flags of existing items
ExpansionStep ==
    lastOp'.name \in {"groupClicked", "onGroupExpanded", "doSetExpandedAll",
                      "setGroupsExpanded"}

\* C14: an event is emitted after each change of an expansion flag, and by a
\* direct call of the expansion handler, and by nothing else; each event carries
\* the aggregate of the group items' flags at that moment: mixed iff a group
\* item is expanded and one is collapsed, fully-collapsed iff one is collapsed
\* and none expanded, fully-expanded iff none is collapsed.
C14_EventState ==
    [][IF ExpansionStep /\ ~error'
       THEN IF lastOp'.name = "onGroupExpanded"
            THEN /\ Len(Events(log')) = 1
                 /\ ConsistentState(Events(log')[1][2], FlagsAfter(0))
            ELSE /\ Len(Events(log')) = Len(ChangedByStep)
                 /\ \A k \in 1..Len(ChangedByStep) :
                       ConsistentState(Events(log')[k][2], FlagsAfter(k))
       ELSE Events(log') = <<>>]_vars

\* setExpandedAll(false) has collapsed two groups one after the other: the
\* first event reports mixed, the second fully-collapsed
C14_Witness ==
    /\ lastOp.name = "doSetExpandedAll"
    /\ ~lastOp.flag
    /\ Events(log) = <<GroupExpandedEvent(INDETERMINATE),
                       GroupExpandedEvent(UNCHECKED)>>
    /\ \A g \in GroupItemIds : ~columnComps[g].expanded

-----------------------------------------------------------------------------
(* C15 *)

\* the last operation was setFilterText with an empty or absent text
FilterCleared ==
    lastOp.name = "setFilterText" /\ lastOp.text \in {Null, <<>>}

\* C15: right after setFilterText with an empty or absent text no filter text is
\* kept, and every item of the registry is displayed if and only if every
\* ancestor group that has an item is expanded, whatever its name is.
C15_EmptyFilterText ==
    FilterCleared
    => /\ filterText = Null
       /\ \A id \in ItemIds :
             columnComps[id].displayed
             <=> \A a \in ItemAncestors(id) : columnComps[a].expanded

\* setFilterText('') on a built panel: an item below expanded groups is shown,
\* an item below a collapsed group is hidden
C15_Witness ==
    /\ lastOp.name = "setFilterText"
    /\ lastOp.text = <<>>
    /\ columnTree # 0
    /\ ~error
    /\ \E id \in ItemIds :
          /\ ItemAncestors(id) # {}
          /\ columnComps[id].displayed
    /\ \E id \in ItemIds :
          /\ ~columnComps[id].displayed
          /\ \E a \in ItemAncestors(id) : ~columnComps[a].expanded

-----------------------------------------------------------------------------
(* C16 *)

\* C16: init subscribes the panel to column-moved notifications if and only if
\* syncLayoutWithGrid is true, and nothing but dispose changes the
\* subscriptions afterwards; a column-moved notification rebuilds a subscribed
\* panel from the layout of the grid, and leaves the registry, the expansion and
\* display flags, the rendered output and the filter text of a panel that is not
\* subscribed unchanged, with no item destroyed or created.
C16_SyncOnColumnMoved ==
    [][/\ lastOp'.name = "init"
          => ("columnMoved" \in listeners') = lastOp'.flag
       /\ (lastOp'.name \notin {"init", "destroy"})
          => listeners' = listeners
       /\ (lastOp'.name = "columnMoved" /\ phase = "initialised")
          => IF "columnMoved" \in listeners
             THEN /\ FullBuild
                  /\ Len(Calls(log', "destroy")) = Cardinality(ItemIds)
                  /\ log'[Len(log')] = <<"updateVisibilityOfRows">>
             ELSE /\ UNCHANGED <<columnComps, gui, columnTree, filterText,
                                 compsDefined>>
                  /\ log' = <<>>]_vars

\* a column-moved notification has left alone a panel initialised without
\* syncLayoutWithGrid: a group keeps a flag that is not the default, and the
\* tree is not the one of the notification
C16_Witness ==
    /\ lastOp.name = "columnMoved"
    /\ phase = "initialised"
    /\ "columnMoved" \notin listeners
    /\ columnTree # 0
    /\ columnTree # lastOp.tree
    /\ \E g \in GroupItemIds : columnComps[g].expanded # expandGroupsByDefault
    /\ \E id \in ItemIds : ~columnComps[id].displayed

-----------------------------------------------------------------------------
(* C17 *)

\* a padding group that has no item and no child whose filter result is true
PaddingWithoutPassingChild(id) ==
    /\ isPadding(columnTree, id)
    /\ id \notin ItemIds
    /\ \A i \in 1..Len(getChildren(columnTree, id)) :
          ~createFilterResults(columnTree, columnComps, filterText)[
               getChildren(columnTree, id)[i]]

\* C17 as claimed: with a filter active, a padding group that has no item and no
\* passing child has the filter result false if it has a parent, and true if it
\* has none.
C17_Original ==
    (columnTree # 0 /\ FilteringActive)
    => \A id \in NodeIds(columnTree) :
          PaddingWithoutPassingChild(id)
          => createFilterResults(columnTree, columnComps, filterText)[id]
             = ~hasOriginalParent(columnTree, id)

-----------------------------------------------------------------------------
(* C18 *)

\* the positions of the entries called name in a trace
Positions(trace, name) == {i \in 1..Len(trace) : trace[i][1] = name}

\* C18: in every step, whatever rebuilds and disposes came before, only items of
\* the registry are destroyed and none twice; a step that rebuilds or disposes
\* destroys every item of the registry, destroys them all before it creates the
\* first new item, and leaves in the registry only items it created; no other
\* step destroys or creates an item; no item of the registry is ever a destroyed
\* one, and no item is ever destroyed a second time.
C18_DestroyedOnceBeforeRebuild ==
    [][/\ \A i \in Positions(log', "destroy") :
             /\ log'[i][2] \in ItemIds
             /\ \A j \in Positions(log', "destroy") :
                    log'[j][2] = log'[i][2] => j = i
       /\ \A i \in Positions(log', "destroy"), j \in Positions(log', "create") :
             i < j
       /\ IF RebuildStep \/ lastOp'.name = "destroy"
          THEN /\ {log'[i][2] : i \in Positions(log', "destroy")} = ItemIds
               /\ DOMAIN columnComps'
                  = {log'[j][2] : j \in Positions(log', "create")}
          ELSE /\ Positions(log', "destroy") = {}
               /\ Positions(log', "create") = {}
               /\ DOMAIN columnComps' = ItemIds
       /\ \A id \in DOMAIN columnComps' : ~columnComps'[id].destroyed
       /\ ~destroyedTwice']_vars

\* an explicit layout has replaced a build of several items: they were
\* destroyed, then as many or more were created
C18_Witness ==
    /\ lastOp.name = "setColumnLayout"
    /\ Len(Calls(log, "destroy")) >= 3
    /\ Len(Calls(log, "create")) >= 3
    /\ ItemIds = {log[j][2] : j \in Positions(log, "create")}
    /\ ~destroyedTwice

-----------------------------------------------------------------------------
(* C19 *)

\* the groups above a node that are not padding groups
RealAncestors(t, id) == {a \in Ancestors(t, id) : ~isPadding(t, a)}

\* C19: in every state after a build, no padding group has an item; the depth
\* of every item is the number of the groups above it that are not padding
\* groups; and every item is displayed if and only if it passes the filter (when
\* one is active) and every group above it that has an item is expanded, so that
\* a padding group above it changes nothing.
C19_PaddingTransparent ==
    columnTree # 0
    => /\ \A id \in ItemIds :
             /\ id \in NodeIds(columnTree)
             /\ ~isPadding(columnTree, id)
             /\ columnComps[id].dept
                = Cardinality(RealAncestors(columnTree, id))
             /\ columnComps[id].displayed
                <=> /\ FilteringActive
                       => createFilterResults(columnTree, columnComps,
                                              filterText)[id]
                    /\ \A a \in RealAncestors(columnTree, id) :
                           columnComps[a].expanded
       /\ \A i \in 1..Len(log) : log[i][1] = "create"
             => /\ ~isPadding(columnTree, log[i][2])
                /\ log[i][3] = Cardinality(RealAncestors(columnTree, log[i][2]))

\* a rebuild of a tree with padding groups: a column below a padding group
\* inside a collapsed group is hidden at depth one, a column below a padding
\* group at the root is shown at depth zero
C19_Witness ==
    /\ columnTree # 0
    /\ Calls(log, "create") # <<>>
    /\ \E id \in ItemIds :
          /\ \E p \in Ancestors(columnTree, id) : isPadding(columnTree, p)
          /\ columnComps[id].dept = 1
          /\ ~columnComps[id].displayed
    /\ \E id \in ItemIds :
          /\ Ancestors(columnTree, id) # {}
          /\ RealAncestors(columnTree, id) = {}
          /\ columnComps[id].dept = 0
          /\ columnComps[id].displayed

-----------------------------------------------------------------------------
(* C20 *)

\* the child lists of tree t: the roots and the children of each group
ChildLists(t) ==
    {Trees[t].roots} \cup {getChildren(t, g) : g \in {n \in NodeIds(t) : isGroup(t, n)}}

\* a and b are siblings and a comes first in the source
SiblingBefore(t, a, b) ==
    \E list \in ChildLists(t) :
        \E i, j \in 1..Len(list) : i < j /\ list[i] = a /\ list[j] = b

Subtree(t, id) == {id} \cup Descendants(t, id)

\* the ids of the items a trace creates, in order
CreatedIds(trace) ==
    [i \in 1..Len(Calls(trace, "create")) |-> Calls(trace, "create")[i][2]]

\* C20: whenever a step has created items, it created each group's item before
\* the items below the group and the items of an earlier sibling's subtree
\* before those of a later sibling's, no item twice; the rendered output lists
\* the items in that order; and visibility was recomputed once, after the last
\* item was created.
C20_PreOrder ==
    Calls(log, "create") # <<>>
    => /\ \A i, j \in 1..Len(CreatedIds(log)) :
             /\ CreatedIds(log)[i] = CreatedIds(log)[j] => i = j
             /\ CreatedIds(log)[j] \in Descendants(columnTree, CreatedIds(log)[i])
                => i < j
             /\ (\E a, b \in NodeIds(columnTree) :
                    /\ SiblingBefore(columnTree, a, b)
                    /\ CreatedIds(log)[i] \in Subtree(columnTree, a)
                    /\ CreatedIds(log)[j] \in Subtree(columnTree, b))
                => i < j
       /\ gui = CreatedIds(log)
       /\ Positions(log, "updateVisibilityOfRows") = {Len(log)}
       /\ \A i \in Positions(log, "create") : i < Len(log)

\* a notification has rebuilt the tree with nested and padding groups: the
\* rendered output is in pre-order
C20_Witness ==
    /\ lastOp.name = "columnEverythingChanged"
    /\ columnTree = 2
    /\ gui = <<"gA", "gB", "c1", "c2", "c3">>
    /\ CreatedIds(log) = gui
    /\ log[Len(log)] = <<"updateVisibilityOfRows">>

-----------------------------------------------------------------------------
(* C21 *)

\* a trace without its warnings
WithoutWarnings(trace) == SelectSeq(trace, LAMBDA e : e[1] # "console.warn")

\* the expansion callbacks of the step: one for each flag it changes, one for a
\* direct call of the handler
CallbacksOfStep ==
    IF lastOp'.name = "onGroupExpanded" THEN 1 ELSE Len(ChangedByStep)

\* C21: a step that changes expansion flags emits exactly one event for each
\* expansion callback, each right after a recomputation of visibility and
\* nothing else in between; when the last event is emitted, every item's display
\* flag is the one the display rule gives for the new expansion flags.
C21_VisibilityBeforeEvent ==
    [][(ExpansionStep /\ ~error')
       => /\ Len(Events(log')) = CallbacksOfStep
          /\ Len(WithoutWarnings(log')) = 2 * CallbacksOfStep
          /\ \A k \in 1..CallbacksOfStep :
                /\ WithoutWarnings(log')[2 * k - 1] = <<"updateVisibilityOfRows">>
                /\ WithoutWarnings(log')[2 * k][1] = "groupExpanded"
          /\ CallbacksOfStep > 0
             => FilterApplied(columnTree, columnComps', filterText)]_vars

\* a click has collapsed a displayed group: one recomputation, then one event,
\* and an item below the group is hidden
C21_Witness ==
    /\ lastOp.name = "groupClicked"
    /\ Len(log) = 2
    /\ log[1] = <<"updateVisibilityOfRows">>
    /\ log[2][1] = "groupExpanded"
    /\ \E g \in GroupItemIds :
          /\ lastOp.ids = <<g>>
          /\ ~columnComps[g].expanded
          /\ columnComps[g].displayed
          /\ \E d \in Descendants(columnTree, g) \cap ItemIds :
                ~columnComps[d].displayed

-----------------------------------------------------------------------------
(* C22 *)

\* C22: setFilterText changes nothing but the stored filter text and the display
\* flags: the registry keeps its keys, every item keeps its expansion flag and
\* all its other fields, the rendered output keeps its items, no item is
\* destroyed or created, no groups-expanded event is emitted and the column
\* model's set-visible operation is not called.
C22_FilterTextFrame ==
    [][lastOp'.name = "setFilterText"
       => /\ DOMAIN columnComps' = ItemIds
          /\ \A id \in ItemIds :
                Undisplayed(columnComps'[id]) = Undisplayed(columnComps[id])
          /\ UNCHANGED <<gui, columnTree, compsDefined, phase, listeners,
                         expandGroupsByDefault, destroyedTwice>>
          /\ Events(log') = <<>>
          /\ Calls(log', "setColumnsVisible") = <<>>
          /\ Calls(log', "onSelectAllChanged") = <<>>
          /\ Calls(log', "destroy") = <<>>
          /\ Calls(log', "create") = <<>>]_vars

\* setFilterText('ReV') on a panel with a collapsed and an expanded group: the
\* text is stored lower-cased, an item whose ancestors are all expanded is hidden
\* by the filter, and the collapsed group is still collapsed
C22_Witness ==
    /\ lastOp.name = "setFilterText"
    /\ lastOp.text = TextRevMixed
    /\ filterText = TextRev
    /\ ~error
    /\ \E g \in GroupItemIds : ~columnComps[g].expanded
    /\ \E g \in GroupItemIds : columnComps[g].expanded
    /\ \E id \in ItemIds :
          /\ ~columnComps[id].displayed
          /\ \A a \in ItemAncestors(id) : columnComps[a].expanded

-----------------------------------------------------------------------------
(* C23 *)

\* the nodes below a suppressed group
BelowSuppressedGroup(t) ==
    {id \in NodeIds(t) : \E a \in Ancestors(t, id) : suppressToolPanel(t, a)}

\* C23: in every state after a build, no node below a suppressed group has an
\* entry in the registry or an item in the rendered output, and no step creates
\* an item for such a node, whether or not the node is suppressed or a padding
\* group itself.
C23_NothingBelowSuppressedGroup ==
    columnTree # 0
    => /\ ItemIds \cap BelowSuppressedGroup(columnTree) = {}
       /\ \A i \in 1..Len(gui) : gui[i] \notin BelowSuppressedGroup(columnTree)
       /\ \A i \in Positions(log, "create") :
             log[i][2] \notin BelowSuppressedGroup(columnTree)

\* an explicit layout with a suppressed group around a column that is neither
\* suppressed nor padding: the column has no entry, other nodes have
C23_Witness ==
    /\ lastOp.name = "setColumnLayout"
    /\ columnTree # 0
    /\ \E id \in BelowSuppressedGroup(columnTree) :
          /\ ~isGroup(columnTree, id)
          /\ ~suppressToolPanel(columnTree, id)
          /\ id \notin ItemIds
    /\ Len(Calls(log, "create")) >= 2
    /\ Len(gui) >= 2

-----------------------------------------------------------------------------
(* C24 *)

\* the items below a node
ItemsBelow(id) == Descendants(columnTree, id) \cap ItemIds

\* the filter result of a node in the current state
PassesFilter(id) == createFilterResults(columnTree, columnComps, filterText)[id]

\* C24: with a filter active, for every group item whose name contains the
\* filter text: if no item below it passes the filter, the group is displayed
\* exactly when every group item above it is expanded, and every item below it
\* is hidden, whether or not the group is expanded; and in any case every item
\* below it that fails the filter is hidden, as is every column below it whose
\* name does not contain the text.
C24_GroupNameMatch ==
    (columnTree # 0 /\ FilteringActive)
    => \A g \in GroupItemIds :
          NameContainsFilter(g)
          => /\ (\A d \in ItemsBelow(g) : ~PassesFilter(d))
                => /\ columnComps[g].displayed
                      <=> \A a \in ItemAncestors(g) : columnComps[a].expanded
                   /\ \A d \in ItemsBelow(g) : ~columnComps[d].displayed
             /\ \A d \in ItemsBelow(g) :
                   \/ ~PassesFilter(d)
                   \/ /\ ~columnComps[d].group
                      /\ getDisplayName(columnTree, d) # Null
                      /\ ~NameContainsFilter(d)
                   => ~columnComps[d].displayed

\* a group named 'Rev' is expanded and displayed under the filter 'rev', and
\* the column below it, whose name does not match, is hidden
C24_Witness ==
    /\ columnTree # 0
    /\ FilteringActive
    /\ \E g \in GroupItemIds :
          /\ NameContainsFilter(g)
          /\ columnComps[g].expanded
          /\ columnComps[g].displayed
          /\ ItemsBelow(g) # {}
          /\ \A d \in ItemsBelow(g) :
                ~NameContainsFilter(d) /\ ~columnComps[d].displayed

-----------------------------------------------------------------------------
(* C25 *)

\* C25: while the registry holds no group item, every groups-expanded event
\* carries the state fully-expanded.
C25_NoGroupItems ==
    (columnTree # 0 /\ GroupItemIds = {})
    => \A i \in Positions(log, "groupExpanded") : log[i][2] = CHECKED

\* the expansion handler has run on a panel whose tree has a padding group and
\* a suppressed group and whose registry holds a column and no group item
C25_Witness ==
    /\ lastOp.name = "onGroupExpanded"
    /\ columnTree # 0
    /\ \E n \in NodeIds(columnTree) : isPadding(columnTree, n)
    /\ \E n \in NodeIds(columnTree) :
          isGroup(columnTree, n) /\ suppressToolPanel(columnTree, n)
    /\ ItemIds # {}
    /\ GroupItemIds = {}
    /\ Events(log) = <<GroupExpandedEvent(CHECKED)>>

====
